---------------------------- MODULE Spec2Model ----------------------------
(***************************************************************************)
(* FlashSQL: a key-value store with per-key expiration on one SQLite       *)
(* table FlashDB(key TEXT PRIMARY KEY, value BLOB, expires_at INTEGER),    *)
(* and the value codec that tags every stored payload.                     *)
(*                                                                         *)
(*   src/LightSQL/encoding.py   encode_value, decode_value                 *)
(*   src/FlashSQL/db.py         class Client                               *)
(*                                                                         *)
(* Byte strings are sequences of integers 0..255, text is a sequence of    *)
(* ASCII codes.  A Python value is a record [t |-> kind, v |-> content].   *)
(***************************************************************************)
EXTENDS Integers, Sequences, FiniteSets, TLC

VARIABLES
    db,       \* the FlashDB table: a function from the stored keys to rows
    now,      \* what _current_time() returns
    last,     \* the last call on the Client: its arguments, result, and the table before it
    written,  \* the last set() whose row nothing but reads, sweeps and the clock touched since (history)
    codec,    \* the codec exercised on its own: input, buffer, output
    callers   \* the callers sharing the Client: where each is in its pop()

vars == <<db, now, last, written, codec, callers>>

---------------------------------------------------------------------------
(* Python values *)

None == [t |-> "nil"]
PyBool(b) == [t |-> "bool", v |-> b]
PyInt(n) == [t |-> "int", v |-> n]
PyStr(s) == [t |-> "str", v |-> s]
PyBytes(b) == [t |-> "bytes", v |-> b]
PyList(s) == [t |-> "list", v |-> s]
PyDict(s) == [t |-> "dict", v |-> s]

\* An exception leaving the call (msgpack's unpack errors, apsw's ConstraintError).
Raised(what) == [t |-> "raised", v |-> what]

\* bool(value), as `if value:` evaluates it.
Truthy(value) ==
    CASE value.t = "nil" -> FALSE
      [] value.t = "bool" -> value.v
      [] value.t = "int" -> value.v # 0
      [] OTHER -> Len(value.v) > 0

---------------------------------------------------------------------------
(* msgpack, the formats the values of this model use *)

RECURSIVE packb(_)
RECURSIVE pack_items(_)
RECURSIVE pack_pairs(_)

pack_int(n) ==
    IF n >= 0 /\ n <= 127 THEN <<n>>                 \* positive fixint
    ELSE IF n < 0 /\ n >= -32 THEN <<256 + n>>       \* negative fixint
    ELSE <<204, n>>                                  \* uint 8

pack_items(s) == IF s = <<>> THEN <<>> ELSE packb(Head(s)) \o pack_items(Tail(s))

pack_pairs(s) ==
    IF s = <<>> THEN <<>>
    ELSE packb(PyStr(Head(s)[1])) \o packb(Head(s)[2]) \o pack_pairs(Tail(s))

packb(o) ==
    CASE o.t = "nil" -> <<192>>
      [] o.t = "bool" -> IF o.v THEN <<195>> ELSE <<194>>
      [] o.t = "int" -> pack_int(o.v)
      [] o.t = "str" -> <<160 + Len(o.v)>> \o o.v            \* fixstr
      [] o.t = "bytes" -> <<196, Len(o.v)>> \o o.v           \* bin 8
      [] o.t = "list" -> <<144 + Len(o.v)>> \o pack_items(o.v)   \* fixarray
      [] o.t = "dict" -> <<128 + Len(o.v)>> \o pack_pairs(o.v)   \* fixmap

Drop(s, n) == SubSeq(s, n + 1, Len(s))
Take(s, n) == SubSeq(s, 1, n)

Fail == [ok |-> FALSE]
Got(val, rest) == [ok |-> TRUE, val |-> val, rest |-> rest]

RECURSIVE unpack_one(_)
RECURSIVE unpack_items(_, _)
RECURSIVE unpack_pairs(_, _)

\* n objects off the front of buf.
unpack_items(buf, n) ==
    IF n = 0 THEN Got(<<>>, buf)
    ELSE LET h == unpack_one(buf) IN
         IF ~h.ok THEN Fail
         ELSE LET r == unpack_items(h.rest, n - 1) IN
              IF ~r.ok THEN Fail ELSE Got(<<h.val>> \o r.val, r.rest)

\* n key/value pairs off the front of buf; a key that is not text is refused
\* (strict_map_key).
unpack_pairs(buf, n) ==
    IF n = 0 THEN Got(<<>>, buf)
    ELSE LET k == unpack_one(buf) IN
         IF ~k.ok THEN Fail
         ELSE IF k.val.t # "str" THEN Fail
         ELSE LET x == unpack_one(k.rest) IN
              IF ~x.ok THEN Fail
              ELSE LET r == unpack_pairs(x.rest, n - 1) IN
                   IF ~r.ok THEN Fail
                   ELSE Got(<< <<k.val.v, x.val>> >> \o r.val, r.rest)

\* One object off the front of buf.
unpack_one(buf) ==
    IF buf = <<>> THEN Fail
    ELSE LET b == Head(buf)
             rest == Tail(buf) IN
         CASE b <= 127 -> Got(PyInt(b), rest)
           [] b >= 224 -> Got(PyInt(b - 256), rest)
           [] b = 192 -> Got(None, rest)
           [] b = 194 -> Got(PyBool(FALSE), rest)
           [] b = 195 -> Got(PyBool(TRUE), rest)
           [] b = 204 -> IF Len(rest) < 1 THEN Fail ELSE Got(PyInt(rest[1]), Tail(rest))
           [] b >= 160 /\ b <= 191 ->
                IF Len(rest) < b - 160 THEN Fail
                ELSE Got(PyStr(Take(rest, b - 160)), Drop(rest, b - 160))
           [] b = 196 ->
                IF Len(rest) < 1 \/ Len(rest) < 1 + rest[1] THEN Fail
                ELSE Got(PyBytes(SubSeq(rest, 2, 1 + rest[1])), Drop(rest, 1 + rest[1]))
           [] b >= 144 /\ b <= 159 ->
                LET r == unpack_items(rest, b - 144) IN
                IF ~r.ok THEN Fail ELSE Got(PyList(r.val), r.rest)
           [] b >= 128 /\ b <= 143 ->
                LET r == unpack_pairs(rest, b - 128) IN
                IF ~r.ok THEN Fail ELSE Got(PyDict(r.val), r.rest)
           [] OTHER -> Fail

\* msgpack.unpackb(packed, raw=False): exactly one object, nothing after it.
unpackb(packed) ==
    LET r == unpack_one(packed) IN
    IF r.ok /\ r.rest = <<>> THEN r.val ELSE Raised("unpack")

---------------------------------------------------------------------------
(* The value codec *)

RAW == 1
STRUCTURED == 2

\* buffer[0:1] and buffer[1:], defined on the empty buffer too.
FirstByte(buffer) == IF buffer = <<>> THEN <<>> ELSE <<Head(buffer)>>
AfterFirst(buffer) == IF buffer = <<>> THEN <<>> ELSE Tail(buffer)

encode_value(value) ==
    IF value.t = "bytes" THEN <<RAW>> \o value.v ELSE <<STRUCTURED>> \o packb(value)

\* decode_value had it returned buffer where the code returns buffer[1:].
decode_value_keeps_tag(buffer) ==
    IF FirstByte(buffer) = <<RAW>> THEN PyBytes(buffer)
    ELSE IF FirstByte(buffer) = <<STRUCTURED>> THEN unpackb(AfterFirst(buffer))
    ELSE None

decode_value(buffer) ==
    IF FirstByte(buffer) = <<RAW>> THEN PyBytes(AfterFirst(buffer))
    ELSE IF FirstByte(buffer) = <<STRUCTURED>> THEN unpackb(AfterFirst(buffer))
    ELSE None

---------------------------------------------------------------------------
(* Bounds and the inputs the calls are given *)

MaxLen == 2      \* entries of a list or dict of plain values
MaxOuter == 1    \* entries of a list or dict that holds lists and dicts
MaxBuf == 3      \* bytes of a payload that encode_value did not write
MaxTime == 2     \* the clock runs from 0 to MaxTime
MaxTTL == 1      \* the largest ttl passed
MaxKeys == 2     \* keys in a get_many / delete_many list
MaxPage == 3     \* pages asked of paginate
MaxPageSize == 2 \* page_size asked of paginate
MaxCallers == 2  \* callers sharing one Client

SeqsUpTo(S, n) == UNION {[1..m -> S] : m \in 0..n}

Range(s) == {s[i] : i \in 1..Len(s)}

\* Keys are text: "Ab" and "a".
KeyAb == <<65, 98>>
KeyA == <<97>>
Keys == {KeyAb, KeyA}

\* LIKE patterns: "%", "a_", "A".
Patterns == {<<37>>, <<97, 95>>, <<65>>}

DictKeys == {<<97>>, <<120>>}

DictsOver(S, n) ==
    {PyDict(s) : s \in {q \in SeqsUpTo(DictKeys \X S, n) :
                          \A i, j \in 1..Len(q) : i # j => q[i][1] # q[j][1]}}

ListsOver(S, n) == {PyList(s) : s \in SeqsUpTo(S, n)}

Plain == {None, PyInt(1), PyStr(<<97>>), PyBytes(<<1>>)}

Atoms ==
    Plain \cup
    {PyBool(FALSE), PyBool(TRUE), PyInt(0), PyInt(127), PyInt(128), PyInt(255),
     PyInt(-1), PyInt(-32), PyStr(<<>>), PyBytes(<<>>), PyBytes(<<2, 192>>)}

Nested1 == Plain \cup ListsOver(Plain, MaxLen) \cup DictsOver(Plain, MaxLen)

Nested2 == ListsOver(Nested1, MaxOuter) \cup DictsOver(Nested1, MaxOuter)

\* The values the codec is exercised on.
Values == Atoms \cup Nested1 \cup Nested2

\* Payloads written past encode_value: every short byte string over these bytes.
BufferBytes == {0, 1, 2, 3, 145, 192}
Buffers == SeqsUpTo(BufferBytes, MaxBuf)

\* The values stored through the Client: falsy and truthy, raw and structured.
StoreValues == {PyInt(0), PyInt(1), PyBytes(<<>>), PyBytes(<<2>>)}

\* ttl arguments: None (not given), a negative, zero, and positive ones.
TTLs == {None, PyInt(-1)} \cup {PyInt(n) : n \in 0..MaxTTL}

\* Payloads a raw statement can leave in the table: empty, and an unknown tag.
ForeignPayloads == {<<>>, <<0, 192>>}

---------------------------------------------------------------------------
(* SQLite: the rows of FlashDB, and the clauses of the statements *)

NULL == <<>>
Integer(n) == <<n>>

Row(value, expires_at) == [value |-> value, expires_at |-> expires_at]

\* INSERT OR REPLACE INTO FlashDB (key, value, expires_at) VALUES (?, ?, ?)
InsertOrReplace(d, key, row) ==
    [k \in DOMAIN d \cup {key} |-> IF k = key THEN row ELSE d[k]]

\* DELETE FROM FlashDB WHERE key IN (...)
DeleteKeys(d, ks) == [k \in DOMAIN d \ ks |-> d[k]]

\* The BINARY collation of the primary key: byte-wise, a prefix first.
RECURSIVE KeyLess(_, _)
KeyLess(a, b) ==
    IF a = <<>> THEN b # <<>>
    ELSE IF b = <<>> THEN FALSE
    ELSE IF Head(a) # Head(b) THEN Head(a) < Head(b)
    ELSE KeyLess(Tail(a), Tail(b))

\* A scan of the WITHOUT ROWID table walks the primary key in order.
RECURSIVE ScanOrder(_)
ScanOrder(ks) ==
    IF ks = {} THEN <<>>
    ELSE LET m == CHOOSE k \in ks : \A o \in ks \ {k} : KeyLess(k, o) IN
         <<m>> \o ScanOrder(ks \ {m})

Lower(c) == IF c >= 65 /\ c <= 90 THEN c + 32 ELSE c

\* text LIKE pattern: % any run, _ any one character, ASCII letters without case.
RECURSIVE Like(_, _)
Like(pattern, text) ==
    IF pattern = <<>> THEN text = <<>>
    ELSE IF Head(pattern) = 37
         THEN Like(Tail(pattern), text) \/ (text # <<>> /\ Like(pattern, Tail(text)))
    ELSE /\ text # <<>>
         /\ (Head(pattern) = 95 \/ Lower(Head(pattern)) = Lower(Head(text)))
         /\ Like(Tail(pattern), Tail(text))

\* LIMIT n OFFSET o on a result: a negative limit is no limit, a negative
\* offset is none.
LimitOffset(rows, limit, offset) ==
    LET o == IF offset < 0 THEN 0 ELSE offset
        rest == IF o >= Len(rows) THEN <<>> ELSE SubSeq(rows, o + 1, Len(rows)) IN
    IF limit < 0 \/ limit >= Len(rest) THEN rest ELSE SubSeq(rest, 1, limit)

\* The clauses had they compared with >= where the code has >, and with <
\* where it has <=.
get_where_inclusive(row, t) == row.expires_at = NULL \/ row.expires_at[1] >= t
exists_where_inclusive(row, t) == row.expires_at = NULL \/ row.expires_at[1] >= t
cleanup_where_strict(row, t) == row.expires_at # NULL /\ row.expires_at[1] < t

\* ... AND (expires_at IS NULL OR expires_at > ?)
get_where(row, t) == row.expires_at = NULL \/ row.expires_at[1] > t
get_many_where(row, t) == row.expires_at = NULL \/ row.expires_at[1] > t
exists_where(row, t) == row.expires_at = NULL \/ row.expires_at[1] > t

\* ... WHERE expires_at IS NOT NULL AND expires_at <= ?
count_expired_where(row, t) == row.expires_at # NULL /\ row.expires_at[1] <= t
cleanup_where(row, t) == row.expires_at # NULL /\ row.expires_at[1] <= t

\* ... WHERE key LIKE ?
keys_where(key, pattern) == Like(pattern, key)
paginate_where(key, pattern) == Like(pattern, key)

---------------------------------------------------------------------------
(* class Client: what each method returns and what it leaves in the table *)

batch_size == 1000

\* A call as the caller sees it; `after` is the call it directly followed, if any.
Call(op, args, ret, pre, at) ==
    [op |-> op, args |-> args, ret |-> ret, pre |-> pre, at |-> at, after |-> last.op]

NoCall ==
    [op |-> "none", args |-> <<>>, ret |-> None, pre |-> <<>>, at |-> 0, after |-> "none"]

NotWritten == <<>>
Written(key, value, ttl, at) == <<[key |-> key, value |-> value, ttl |-> ttl, at |-> at]>>

\* The history drops its entry when a call other than set() touches its key.
Forget(w, ks) == IF w # NotWritten /\ w[1].key \in ks THEN NotWritten ELSE w

\* (self._current_time() + ttl) if ttl else None
set_expires_at(ttl, t) == IF Truthy(ttl) THEN Integer(t + ttl.v) ELSE NULL

\* (now + ttl) if ttl else None
set_many_expires_at(ttl, t) == IF Truthy(ttl) THEN Integer(t + ttl.v) ELSE NULL

set_table(d, key, value, ttl, t) ==
    InsertOrReplace(d, key, Row(encode_value(value), set_expires_at(ttl, t)))

\* executemany: one INSERT OR REPLACE per entry, in the dict's order.
RECURSIVE set_many_table(_, _, _)
set_many_table(d, items, t) ==
    IF items = <<>> THEN d
    ELSE LET e == Head(items) IN
         set_many_table(
             InsertOrReplace(d, e[1], Row(encode_value(e[2]), set_many_expires_at(e[3], t))),
             Tail(items), t)

\* fetchone() of the SELECT, then decode_value(result[0]) if result else None
get_returns(d, key, t) ==
    IF key \in DOMAIN d /\ get_where(d[key], t) THEN decode_value(d[key].value) ELSE None

\* The rows one batch of get_many selects, decoded.
get_many_batch(d, batch, t) ==
    LET found == {k \in Range(batch) : k \in DOMAIN d /\ get_many_where(d[k], t)} IN
    [k \in found |-> decode_value(d[k].value)]

\* get_many had it kept only the rows of the batch at hand (result = {...}).
RECURSIVE get_many_from_last_batch(_, _, _, _, _)
get_many_from_last_batch(d, keys, t, size, result) ==
    IF keys = <<>> THEN result
    ELSE LET batch == IF Len(keys) <= size THEN keys ELSE SubSeq(keys, 1, size) IN
         get_many_from_last_batch(d, IF Len(keys) <= size THEN <<>> ELSE Drop(keys, size),
                                  t, size, get_many_batch(d, batch, t))

\* result.update(...) over the batches keys[i:i + size]
RECURSIVE get_many_from(_, _, _, _, _)
get_many_from(d, keys, t, size, result) ==
    IF keys = <<>> THEN result
    ELSE LET batch == IF Len(keys) <= size THEN keys ELSE SubSeq(keys, 1, size)
             rows == get_many_batch(d, batch, t)
             merged == [k \in DOMAIN result \cup DOMAIN rows |->
                           IF k \in DOMAIN rows THEN rows[k] ELSE result[k]] IN
         get_many_from(d, IF Len(keys) <= size THEN <<>> ELSE Drop(keys, size),
                       t, size, merged)

get_many_returns(d, keys, t) ==
    LET result == get_many_from(d, keys, t, batch_size, <<>>) IN
    IF \E k \in DOMAIN result : result[k].t = "raised" THEN Raised("unpack") ELSE result

delete_table(d, key) == DeleteKeys(d, {key})

\* One DELETE ... WHERE key IN (...) per batch keys[i:i + size]
RECURSIVE delete_many_from(_, _, _)
delete_many_from(d, keys, size) ==
    IF keys = <<>> THEN d
    ELSE LET batch == IF Len(keys) <= size THEN keys ELSE SubSeq(keys, 1, size) IN
         delete_many_from(DeleteKeys(d, Range(batch)),
                          IF Len(keys) <= size THEN <<>> ELSE Drop(keys, size), size)

delete_many_table(d, keys) == delete_many_from(d, keys, batch_size)

\* rename had its statement been UPDATE OR REPLACE: no conflict is reported.
rename_conflict_never(d, old_key, new_key) == FALSE

\* UPDATE FlashDB SET key = ? WHERE key = ?: the primary key refuses a second
\* row under new_key.
rename_conflict(d, old_key, new_key) ==
    old_key \in DOMAIN d /\ new_key \in DOMAIN d /\ old_key # new_key

\* rename had it re-inserted the value under new_key without its expires_at.
rename_table_drops_expiry(d, old_key, new_key) ==
    IF old_key \notin DOMAIN d \/ rename_conflict(d, old_key, new_key) THEN d
    ELSE [k \in (DOMAIN d \ {old_key}) \cup {new_key} |->
             IF k = new_key THEN Row(d[old_key].value, NULL) ELSE d[k]]

rename_table(d, old_key, new_key) ==
    IF old_key \notin DOMAIN d \/ rename_conflict(d, old_key, new_key) THEN d
    ELSE [k \in (DOMAIN d \ {old_key}) \cup {new_key} |->
             IF k = new_key THEN d[old_key] ELSE d[k]]

\* result[0] if result else None
get_expire_returns(d, key) ==
    IF key \in DOMAIN d /\ d[key].expires_at # NULL THEN PyInt(d[key].expires_at[1])
    ELSE None

\* set_expire had its UPDATE passed over rows that are already expired.
set_expire_table_live_only(d, key, ttl, t) ==
    IF key \in DOMAIN d /\ (d[key].expires_at = NULL \/ d[key].expires_at[1] > t)
    THEN [d EXCEPT ![key].expires_at = Integer(t + ttl)]
    ELSE d

\* set_expire had it computed expires_at as set does (... if ttl else None).
set_expire_table_falsy(d, key, ttl, t) ==
    IF key \in DOMAIN d
    THEN [d EXCEPT ![key].expires_at = IF ttl # 0 THEN Integer(t + ttl) ELSE NULL]
    ELSE d

\* UPDATE FlashDB SET expires_at = ? WHERE key = ?
set_expire_table(d, key, ttl, t) ==
    IF key \in DOMAIN d THEN [d EXCEPT ![key].expires_at = Integer(t + ttl)] ELSE d

keys_returns(d, pattern) ==
    ScanOrder({k \in DOMAIN d : keys_where(k, pattern)})

\* paginate had it counted pages from 0 (offset = page * page_size).
paginate_returns_zero_based(d, pattern, page, page_size) ==
    LET offset == page * page_size IN
    LimitOffset(ScanOrder({k \in DOMAIN d : paginate_where(k, pattern)}), page_size, offset)

paginate_returns(d, pattern, page, page_size) ==
    LET offset == (page - 1) * page_size IN
    LimitOffset(ScanOrder({k \in DOMAIN d : paginate_where(k, pattern)}), page_size, offset)

count_returns(d) == Cardinality(DOMAIN d)

count_expired_returns(d, t) ==
    Cardinality({k \in DOMAIN d : count_expired_where(d[k], t)})

\* cleanup had its DELETE stopped after one row.
cleanup_table_one(d, t) ==
    LET gone == {k \in DOMAIN d : cleanup_where(d[k], t)} IN
    IF gone = {} THEN d ELSE DeleteKeys(d, {CHOOSE k \in gone : TRUE})

cleanup_table(d, t) == DeleteKeys(d, {k \in DOMAIN d : cleanup_where(d[k], t)})

exists_returns(d, key, t) == key \in DOMAIN d /\ exists_where(d[key], t)

\* pop had it deleted whatever get returned.
pop_deletes_any(value) == value.t # "raised"

\* value = self.get(key); if value: self.delete(key); return value
pop_deletes(value) == value.t # "raised" /\ Truthy(value)

pop_table(d, key, t) ==
    IF pop_deletes(get_returns(d, key, t)) THEN delete_table(d, key) ELSE d

\* SELECT EXISTS(SELECT 1 FROM FlashDB WHERE key = ?)
update_returns(d, key) == key \in DOMAIN d

\* update had it written the row with INSERT OR REPLACE (key, value).
update_table_upsert(d, key, value) ==
    InsertOrReplace(d, key, Row(encode_value(value), NULL))

update_table(d, key, value) ==
    IF update_returns(d, key) THEN [d EXCEPT ![key].value = encode_value(value)] ELSE d

---------------------------------------------------------------------------
(* The calls *)

set(key, value, ttl) ==
    /\ db' = set_table(db, key, value, ttl, now)
    /\ last' = Call("set", <<key, value, ttl>>, None, db, now)
    /\ written' = Written(key, value, ttl, now)
    /\ UNCHANGED now

set_many(items) ==
    /\ db' = set_many_table(db, items, now)
    /\ last' = Call("set_many", <<items>>, None, db, now)
    /\ written' = Forget(written, {items[i][1] : i \in 1..Len(items)})
    /\ UNCHANGED now

get(key) ==
    /\ last' = Call("get", <<key>>, get_returns(db, key, now), db, now)
    /\ UNCHANGED <<db, now, written>>

get_many(keys) ==
    /\ last' = Call("get_many", <<keys>>, get_many_returns(db, keys, now), db, now)
    /\ UNCHANGED <<db, now, written>>

delete(key) ==
    /\ db' = delete_table(db, key)
    /\ last' = Call("delete", <<key>>, None, db, now)
    /\ written' = Forget(written, {key})
    /\ UNCHANGED now

delete_many(keys) ==
    /\ db' = delete_many_table(db, keys)
    /\ last' = Call("delete_many", <<keys>>, None, db, now)
    /\ written' = Forget(written, Range(keys))
    /\ UNCHANGED now

\* A statement of a batch call fails: the cursor raises and the call ends
\* there. The connection is in autocommit and no method opens a transaction,
\* so every statement run before the failing one has taken effect.
StoreError == Raised("apsw.Error")

\* for i in range(0, len(keys), batch_size): the number of statements run
Batches(keys) == (Len(keys) + batch_size - 1) \div batch_size

\* executemany raises on the n-th entry
set_many_fails(items, n) ==
    /\ db' = set_many_table(db, SubSeq(items, 1, n - 1), now)
    /\ last' = Call("set_many", <<items>>, StoreError, db, now)
    /\ written' = Forget(written, {items[i][1] : i \in 1..Len(items)})
    /\ UNCHANGED now

\* cursor.execute raises on the n-th batch
delete_many_fails(keys, n) ==
    /\ db' = delete_many_from(db, SubSeq(keys, 1, (n - 1) * batch_size), batch_size)
    /\ last' = Call("delete_many", <<keys>>, StoreError, db, now)
    /\ written' = Forget(written, Range(keys))
    /\ UNCHANGED now

\* cursor.execute raises on the n-th batch: the result so far is dropped
get_many_fails(keys, n) ==
    /\ last' = Call("get_many", <<keys>>, StoreError, db, now)
    /\ UNCHANGED <<db, now, written>>

rename(old_key, new_key) ==
    /\ db' = rename_table(db, old_key, new_key)
    /\ last' = Call("rename", <<old_key, new_key>>,
                    IF rename_conflict(db, old_key, new_key)
                    THEN Raised("ConstraintError") ELSE None,
                    db, now)
    /\ written' = Forget(written, {old_key, new_key})
    /\ UNCHANGED now

get_expire(key) ==
    /\ last' = Call("get_expire", <<key>>, get_expire_returns(db, key), db, now)
    /\ UNCHANGED <<db, now, written>>

set_expire(key, ttl) ==
    /\ db' = set_expire_table(db, key, ttl, now)
    /\ last' = Call("set_expire", <<key, ttl>>, None, db, now)
    /\ written' = Forget(written, {key})
    /\ UNCHANGED now

keys(pattern) ==
    /\ last' = Call("keys", <<pattern>>, keys_returns(db, pattern), db, now)
    /\ UNCHANGED <<db, now, written>>

paginate(pattern, page, page_size) ==
    /\ last' = Call("paginate", <<pattern, page, page_size>>,
                    paginate_returns(db, pattern, page, page_size), db, now)
    /\ UNCHANGED <<db, now, written>>

count ==
    /\ last' = Call("count", <<>>, count_returns(db), db, now)
    /\ UNCHANGED <<db, now, written>>

count_expired ==
    /\ last' = Call("count_expired", <<>>, count_expired_returns(db, now), db, now)
    /\ UNCHANGED <<db, now, written>>

cleanup ==
    /\ db' = cleanup_table(db, now)
    /\ last' = Call("cleanup", <<>>, None, db, now)
    /\ UNCHANGED <<now, written>>

exists(key) ==
    /\ last' = Call("exists", <<key>>, exists_returns(db, key, now), db, now)
    /\ UNCHANGED <<db, now, written>>

pop(key) ==
    /\ db' = pop_table(db, key, now)
    /\ last' = Call("pop", <<key>>, get_returns(db, key, now), db, now)
    /\ written' = Forget(written, {key})
    /\ UNCHANGED now

update(key, value) ==
    /\ db' = update_table(db, key, value)
    /\ last' = Call("update", <<key, value>>, update_returns(db, key), db, now)
    /\ written' = Forget(written, {key})
    /\ UNCHANGED now

\* execute("INSERT OR REPLACE INTO FlashDB (key, value) VALUES (?, ?)", (key, payload))
execute(key, payload) ==
    /\ db' = InsertOrReplace(db, key, Row(payload, NULL))
    /\ last' = Call("execute", <<key, payload>>, <<>>, db, now)
    /\ written' = Forget(written, {key})
    /\ UNCHANGED now

\* The caller takes the result; the Client is called again only after that.
Return ==
    /\ last # NoCall
    /\ last' = NoCall
    /\ UNCHANGED <<db, now, written>>

\* A second passes on the wall clock.
Tick ==
    /\ last = NoCall
    /\ now < MaxTime
    /\ now' = now + 1
    /\ UNCHANGED <<db, last, written>>

---------------------------------------------------------------------------
(* pop() among callers that share the Client. Nothing in Client holds a    *)
(* lock or opens a transaction, so a caller's pop is two statements, the   *)
(* SELECT of get() and the DELETE of delete(), and other callers'          *)
(* statements may run between them.                                        *)

Callers == 1..MaxCallers

\* The row stored under key, if any.
Stored(d, key) == IF key \in DOMAIN d THEN <<d[key]>> ELSE <<>>

\* A caller outside any call. In a pop: the key, the value get() returned,
\* the row it read (seen), the callers that had read that same row and not yet
\* deleted (with), and the row its DELETE removed (removed).
Idle ==
    [pc |-> "idle", key |-> <<>>, value |-> None, seen |-> <<>>, with |-> {}, removed |-> <<>>]

NoCallers == [c \in Callers |-> Idle]

\* value = self.get(key)
pop_get(c, key) ==
    /\ callers[c].pc = "idle"
    /\ callers' = [callers EXCEPT ![c] =
          [pc |-> "pop_got", key |-> key, value |-> get_returns(db, key, now),
           seen |-> Stored(db, key),
           with |-> {o \in Callers \ {c} :
                        /\ callers[o].pc = "pop_got"
                        /\ callers[o].key = key
                        /\ callers[o].seen = Stored(db, key)
                        /\ callers[o].seen # <<>>},
           removed |-> <<>>]]
    /\ UNCHANGED <<db, now, last, written, codec>>

\* if value: self.delete(key)
pop_delete(c) ==
    /\ callers[c].pc = "pop_got"
    /\ db' = IF pop_deletes(callers[c].value) THEN delete_table(db, callers[c].key) ELSE db
    /\ callers' = [callers EXCEPT ![c].pc = "returned",
                                  ![c].removed = IF pop_deletes(callers[c].value)
                                                 THEN Stored(db, callers[c].key) ELSE <<>>]
    /\ UNCHANGED <<now, last, written, codec>>

\* return value: the caller has its result and may call again
pop_return(c) ==
    /\ callers[c].pc = "returned"
    /\ callers' = [callers EXCEPT ![c] = Idle]
    /\ UNCHANGED <<db, now, last, written, codec>>

\* set(key, value) by a caller that is in no other call
set_by(c, key, value) ==
    /\ callers[c].pc = "idle"
    /\ db' = set_table(db, key, value, None, now)
    /\ UNCHANGED <<now, last, written, codec, callers>>

---------------------------------------------------------------------------
(* The store *)

\* set_many's dicts: an entry for each key of a set of keys.
ManyEntries == {PyInt(1)} \X {None, PyInt(0), PyInt(MaxTTL)}

ItemsOf(f) == LET ks == ScanOrder(DOMAIN f) IN
              [i \in 1..Len(ks) |-> <<ks[i], f[ks[i]][1], f[ks[i]][2]>>]

ManyItems == {ItemsOf(f) : f \in UNION {[K -> ManyEntries] : K \in SUBSET Keys}}

KeyLists == SeqsUpTo(Keys, MaxKeys)

\* Key lists one longer than a batch: batch_size times one key, then another.
LongKeyLists ==
    UNION {{[i \in 1..(batch_size + 1) |-> IF i <= batch_size THEN k1 ELSE k2] :
               k2 \in Keys \ {k1}} : k1 \in Keys}

CodecOff == [pc |-> "off", input |-> "none", value |-> None, buffer |-> <<>>, result |-> None]

Init ==
    /\ db = <<>>
    /\ now = 0
    /\ last = NoCall
    /\ written = NotWritten
    /\ codec = CodecOff
    /\ callers = NoCallers

\* One call on the Client, made when the previous one has returned.
Client(call) == last = NoCall /\ call /\ UNCHANGED <<codec, callers>>

\* cleanup() followed at once by another call, nothing in between.
AfterCleanup(call) == last.op = "cleanup" /\ call /\ UNCHANGED <<codec, callers>>

Next ==
    \/ \E key \in Keys, value \in StoreValues, ttl \in TTLs : Client(set(key, value, ttl))
    \/ \E items \in ManyItems : Client(set_many(items))
    \/ \E key \in Keys : Client(get(key))
    \/ \E ks \in KeyLists \cup LongKeyLists : Client(get_many(ks))
    \/ \E key \in Keys : Client(delete(key))
    \/ \E ks \in KeyLists : Client(delete_many(ks))
    \/ \E old_key \in Keys, new_key \in Keys : Client(rename(old_key, new_key))
    \/ \E key \in Keys : Client(get_expire(key))
    \/ \E key \in Keys, n \in -1..MaxTTL : Client(set_expire(key, n))
    \/ \E pattern \in Patterns : Client(keys(pattern))
    \/ \E pattern \in Patterns, page \in 1..MaxPage, page_size \in 1..MaxPageSize :
          Client(paginate(pattern, page, page_size))
    \/ Client(count)
    \/ Client(count_expired)
    \/ Client(cleanup)
    \/ \E key \in Keys : Client(exists(key))
    \/ \E key \in Keys : Client(pop(key))
    \/ \E key \in Keys, value \in StoreValues : Client(update(key, value))
    \/ AfterCleanup(cleanup)
    \/ AfterCleanup(count_expired)
    \/ AfterCleanup(count)
    \/ Return /\ UNCHANGED <<codec, callers>>
    \/ Tick /\ UNCHANGED <<codec, callers>>

Spec == Init /\ [][Next]_vars

---------------------------------------------------------------------------
(* The store under callers whose pops interleave *)

InitPop ==
    /\ db = <<>>
    /\ now = 0
    /\ last = NoCall
    /\ written = NotWritten
    /\ codec = CodecOff
    /\ callers = NoCallers

NextPop ==
    \/ \E c \in Callers, key \in Keys : pop_get(c, key)
    \/ \E c \in Callers : pop_delete(c)
    \/ \E c \in Callers : pop_return(c)
    \/ \E c \in Callers, key \in Keys, value \in StoreValues : set_by(c, key, value)

SpecPop == InitPop /\ [][NextPop]_vars

---------------------------------------------------------------------------
(* The store when statements of the batch calls may fail *)

NextFaults ==
    \/ \E key \in Keys, value \in StoreValues, ttl \in TTLs : Client(set(key, value, ttl))
    \/ \E items \in ManyItems : Client(set_many(items))
    \/ \E ks \in KeyLists : Client(get_many(ks))
    \/ \E ks \in KeyLists : Client(delete_many(ks))
    \/ \E items \in ManyItems, n \in 1..MaxKeys :
          n <= Len(items) /\ Client(set_many_fails(items, n))
    \/ \E ks \in KeyLists \cup LongKeyLists, n \in 1..MaxKeys :
          n <= Batches(ks) /\ Client(delete_many_fails(ks, n))
    \/ \E ks \in KeyLists, n \in 1..MaxKeys :
          n <= Batches(ks) /\ Client(get_many_fails(ks, n))
    \/ Return /\ UNCHANGED <<codec, callers>>
    \/ Tick /\ UNCHANGED <<codec, callers>>

SpecFaults == Init /\ [][NextFaults]_vars

---------------------------------------------------------------------------
(* The codec on its own: a value encoded, decoded, stored and read back;   *)
(* a payload that encode_value did not write decoded, stored and read      *)

CodecInputs ==
    {[pc |-> "value", input |-> "value", value |-> v, buffer |-> <<>>, result |-> None] :
        v \in Values}
    \cup
    {[pc |-> "buffer", input |-> "buffer", value |-> None, buffer |-> b, result |-> None] :
        b \in Buffers}

InitCodec ==
    /\ db = <<>>
    /\ now = 0
    /\ last = NoCall
    /\ written = NotWritten
    /\ codec \in CodecInputs
    /\ callers = NoCallers

Encode ==
    /\ codec.pc = "value"
    /\ codec' = [codec EXCEPT !.pc = "encoded", !.buffer = encode_value(codec.value)]
    /\ UNCHANGED <<db, now, last, written, callers>>

Decode ==
    /\ codec.pc \in {"encoded", "buffer"}
    /\ codec' = [codec EXCEPT !.pc = IF codec.pc = "encoded" THEN "roundtrip" ELSE "decoded",
                              !.result = decode_value(codec.buffer)]
    /\ UNCHANGED <<db, now, last, written, callers>>

StoreValue(key) ==
    /\ codec.pc = "roundtrip"
    /\ set(key, codec.value, None)
    /\ codec' = [codec EXCEPT !.pc = "stored"]
    /\ UNCHANGED callers

StoreBuffer(key) ==
    /\ codec.pc = "decoded"
    /\ execute(key, codec.buffer)
    /\ codec' = [codec EXCEPT !.pc = "stored"]
    /\ UNCHANGED callers

ReadBack(key) ==
    /\ codec.pc = "stored"
    /\ get(key)
    /\ codec' = [codec EXCEPT !.pc = "read"]
    /\ UNCHANGED callers

NextCodec ==
    \/ Encode
    \/ Decode
    \/ \E key \in Keys : StoreValue(key)
    \/ \E key \in Keys : StoreBuffer(key)
    \/ \E key \in Keys : ReadBack(key)

SpecCodec == InitCodec /\ [][NextCodec]_vars

---------------------------------------------------------------------------
(* The specification's words, stated apart from the code's clauses *)

\* A record is live when its expires_at is absent or still ahead of t.
Live(row, t) == row.expires_at = NULL \/ row.expires_at[1] > t

\* A record is expired when its expires_at is set and at or before t.
Expired(row, t) == row.expires_at # NULL /\ row.expires_at[1] <= t

LiveKeys(d, t) == {k \in DOMAIN d : Live(d[k], t)}
ExpiredKeys(d, t) == {k \in DOMAIN d : Expired(d[k], t)}

\* The key a single-key call was given.
CallKey == last.args[1]

PutHasTTL == written # NotWritten /\ written[1].ttl.t = "int" /\ written[1].ttl.v > 0
PutExpiry == written[1].at + written[1].ttl.v

---------------------------------------------------------------------------
(* C1..C10 *)

\* C1: after set(k, v, ttl = t) with t > 0, get(k) at the clock value of the
\* write returns v; at every clock value now >= write time + t, get(k) returns
\* None and exists(k) returns False, with or without a cleanup() in between.
C1_PutVisibleUntilExpiry ==
    (PutHasTTL /\ last.op \in {"get", "exists"} /\ CallKey = written[1].key) =>
        /\ (last.op = "get" /\ last.at = written[1].at) => last.ret = written[1].value
        /\ (last.op = "get" /\ last.at >= PutExpiry) => last.ret = None
        /\ (last.op = "exists" /\ last.at >= PutExpiry) => last.ret = FALSE

\* get(k) past the expiry of a put whose row has not been swept.
C1_Witness ==
    /\ PutHasTTL
    /\ last.op = "get"
    /\ CallKey = written[1].key
    /\ last.at > PutExpiry
    /\ CallKey \in DOMAIN db
    /\ last.ret = None

\* C2: keys(pattern) and paginate(pattern, page, page_size) return only live
\* keys: no returned key belongs to a record that is expired at the time of
\* the call, swept or not.
C2_EnumerationOnlyLive ==
    last.op \in {"keys", "paginate"} =>
        \A i \in 1..Len(last.ret) : last.ret[i] \notin ExpiredKeys(last.pre, last.at)

\* C3: pop(k) on a live key holding any value v, falsy ones included, returns
\* v and removes the record: k is no longer stored and count() is one less.
C3_PopRemovesEveryValue ==
    (last.op = "pop" /\ CallKey \in LiveKeys(last.pre, last.at)) =>
        \A v \in StoreValues :
            last.pre[CallKey].value = encode_value(v) =>
                /\ last.ret = v
                /\ CallKey \notin DOMAIN db
                /\ ~exists_returns(db, CallKey, last.at)
                /\ count_returns(db) = count_returns(last.pre) - 1

C5_RoundTrip ==
    codec.input = "value" =>
        /\ codec.pc \in {"encoded", "roundtrip", "stored", "read"} =>
              /\ codec.buffer # <<>>
              /\ (codec.value.t = "bytes") <=> (Head(codec.buffer) = RAW)
              /\ (codec.value.t # "bytes") <=> (Head(codec.buffer) = STRUCTURED)
        /\ codec.pc \in {"roundtrip", "stored", "read"} =>
              /\ codec.result = codec.value
              /\ codec.result.t = codec.value.t
        /\ (codec.pc = "read" /\ CallKey \in DOMAIN db) => last.ret = codec.value

\* A list holding a dict, stored and read back.
C5_Witness ==
    /\ codec.input = "value"
    /\ codec.pc = "read"
    /\ codec.value.t = "list"
    /\ Len(codec.value.v) > 0
    /\ codec.value.v[1].t = "dict"
    /\ Len(codec.value.v[1].v) > 0
    /\ CallKey \in DOMAIN db
    /\ last.ret = codec.value

\* C6: decoding a payload that is empty or whose first byte is neither RAW nor
\* STRUCTURED raises; get(k) on a live record with such a payload raises too,
\* and so differs from get on a missing key.
BadTag(buffer) == buffer = <<>> \/ Head(buffer) \notin {RAW, STRUCTURED}

C6_BadTagRaises ==
    (codec.input = "buffer" /\ BadTag(codec.buffer)) =>
        /\ codec.pc \in {"decoded", "stored", "read"} => codec.result.t = "raised"
        /\ (codec.pc = "read" /\ CallKey \in DOMAIN db) => last.ret.t = "raised"

\* C7: cleanup() removes exactly the records expired at the time of the call;
\* every other record keeps its key, payload and expires_at; with nothing
\* expired the table is unchanged; no error is raised.
C7_CleanupExact ==
    last.op = "cleanup" =>
        /\ last.ret = None
        /\ DOMAIN db = DOMAIN last.pre \ ExpiredKeys(last.pre, last.at)
        /\ \A k \in DOMAIN db : db[k] = last.pre[k]
        /\ ExpiredKeys(last.pre, last.at) = {} => db = last.pre

\* cleanup() removed one record and kept another that carries a later expiry.
C7_Witness ==
    /\ last.op = "cleanup"
    /\ DOMAIN last.pre # DOMAIN db
    /\ \E k \in DOMAIN db : db[k].expires_at # NULL

\* C8: a cleanup() directly after a cleanup(), at the same clock value, leaves
\* the table as the first one left it, and count_expired() directly after
\* cleanup() is 0.
C8_CleanupIdempotent ==
    /\ (last.op = "cleanup" /\ last.after = "cleanup") => db = last.pre
    /\ (last.op = "count_expired" /\ last.after = "cleanup") => last.ret = 0
    /\ last.op = "cleanup" => count_expired_returns(db, last.at) = 0

\* The second of two cleanup() calls, after the first swept the row of a put.
C8_Witness ==
    /\ last.op = "cleanup"
    /\ last.after = "cleanup"
    /\ PutHasTTL
    /\ written[1].key \notin DOMAIN db
    /\ DOMAIN db # {}

\* C9: count() is the number of live keys (those exists() accepts) plus
\* count_expired(), in every state; every stored record is one of live or
\* expired and not both; count() directly after cleanup() is the number of
\* live keys.
C9_CountIsLivePlusExpired ==
    /\ count_returns(db) =
          Cardinality({k \in Keys : exists_returns(db, k, now)}) + count_expired_returns(db, now)
    /\ \A k \in DOMAIN db : exists_returns(db, k, now) # count_expired_where(db[k], now)
    /\ last.op = "count" =>
          last.ret = Cardinality(LiveKeys(last.pre, last.at))
                       + Cardinality(ExpiredKeys(last.pre, last.at))
    /\ (last.op = "count" /\ last.after = "cleanup") =>
          last.ret = Cardinality({k \in Keys : exists_returns(db, k, now)})

\* count() over one live and one expired record.
C9_Witness ==
    /\ last.op = "count"
    /\ last.ret = 2
    /\ Cardinality({k \in Keys : exists_returns(db, k, now)}) = 1
    /\ count_expired_returns(db, now) = 1

\* C10: after set(key, value, ttl) the table holds one record for key, its
\* payload encode_value(value), its expires_at the time of the call plus ttl
\* for every ttl given and absent when none was given; no error is raised.
C10_PutReplacesRecord ==
    last.op = "set" =>
        LET ttl == last.args[3] IN
        /\ last.ret = None
        /\ CallKey \in DOMAIN db
        /\ db[CallKey].value = encode_value(last.args[2])
        /\ db[CallKey].expires_at =
              IF ttl.t = "nil" THEN NULL ELSE Integer(last.at + ttl.v)
        /\ \A k \in DOMAIN last.pre \cup DOMAIN db :
              k # CallKey => (k \in DOMAIN last.pre /\ k \in DOMAIN db /\ db[k] = last.pre[k])

---------------------------------------------------------------------------
(* C11..C20 *)

Window(s, page, size) ==
    LET first == (page - 1) * size + 1
        end == IF page * size < Len(s) THEN page * size ELSE Len(s) IN
    IF first > Len(s) THEN <<>> ELSE [i \in 1..(end - first + 1) |-> s[first + i - 1]]

\* paginate(pattern, page, size), paginate(pattern, page + 1, size), ... joined,
\* up to the first empty page.
RECURSIVE PagesFrom(_, _, _, _)
PagesFrom(d, pattern, page, size) ==
    LET this == paginate_returns(d, pattern, page, size) IN
    IF this = <<>> THEN <<>> ELSE this \o PagesFrom(d, pattern, page + 1, size)

NoDuplicates(s) == \A i, j \in 1..Len(s) : s[i] = s[j] => i = j

Percent == <<37>>

\* C12: on an unchanged store the pages paginate("%", 1, n), paginate("%", 2, n),
\* ... up to the first empty one, joined, are the list keys("%") returns: same
\* keys, same order, none twice, none missing, for every page size n >= 1; each
\* page is the matching window of the keys() list.
C12_PagesJoinToKeys ==
    /\ (last.op = "keys" /\ last.args[1] = Percent) =>
          /\ NoDuplicates(last.ret)
          /\ \A n \in 1..MaxPageSize : PagesFrom(db, Percent, 1, n) = last.ret
    /\ last.op = "paginate" =>
          last.ret = Window(keys_returns(db, last.args[1]), last.args[2], last.args[3])

\* The second page of size one holds the second of two keys.
C12_Witness ==
    /\ last.op = "paginate"
    /\ last.args = <<Percent, 2, 1>>
    /\ last.ret = <<KeyA>>
    /\ keys_returns(db, Percent) = <<KeyAb, KeyA>>

\* C13: update(key, value) on a stored record, live or expired, replaces the
\* payload with the encoded value, keeps expires_at and returns true; with no
\* record it returns false and creates none; every other record is unchanged.
C13_UpdateKeepsExpiry ==
    last.op = "update" =>
        /\ DOMAIN db = DOMAIN last.pre
        /\ \A k \in DOMAIN db \ {CallKey} : db[k] = last.pre[k]
        /\ IF CallKey \in DOMAIN last.pre
           THEN /\ last.ret = TRUE
                /\ db[CallKey].value = encode_value(last.args[2])
                /\ db[CallKey].expires_at = last.pre[CallKey].expires_at
           ELSE last.ret = FALSE

\* update has rewritten the payload of an expired, unswept record.
C13_Witness ==
    /\ last.op = "update"
    /\ CallKey \in ExpiredKeys(last.pre, last.at)
    /\ db[CallKey].value # last.pre[CallKey].value
    /\ last.ret = TRUE

\* C14: set_expire(key, ttl) at clock value now sets the record's expires_at to
\* now + ttl and keeps its payload; with no record for key it creates none;
\* every other record is unchanged.
C14_SetExpireOnlyExpiry ==
    last.op = "set_expire" =>
        /\ DOMAIN db = DOMAIN last.pre
        /\ \A k \in DOMAIN db \ {CallKey} : db[k] = last.pre[k]
        /\ CallKey \in DOMAIN last.pre =>
              /\ db[CallKey].expires_at = Integer(last.at + last.args[2])
              /\ db[CallKey].value = last.pre[CallKey].value
        /\ CallKey \notin DOMAIN last.pre =>
              /\ count_returns(db) = count_returns(last.pre)
              /\ get_returns(db, CallKey, last.at) = None

\* set_expire with ttl 0 has put an expiry on a record that had none, next to
\* another record.
C14_Witness ==
    /\ last.op = "set_expire"
    /\ last.args[2] = 0
    /\ DOMAIN last.pre = Keys
    /\ last.pre[CallKey].expires_at = NULL
    /\ db[CallKey].expires_at = Integer(last.at)

\* C15: rename(old_key, new_key) with no record for old_key leaves the store
\* unchanged and raises nothing; with a record for old_key, live or expired,
\* and none for new_key, old_key is gone, new_key holds the same payload and
\* expires_at, and count() is unchanged.
C15_RenameMovesRecord ==
    last.op = "rename" =>
        /\ last.args[1] \notin DOMAIN last.pre => (db = last.pre /\ last.ret = None)
        /\ (last.args[1] \in DOMAIN last.pre /\ last.args[2] \notin DOMAIN last.pre) =>
              /\ last.ret = None
              /\ last.args[1] \notin DOMAIN db
              /\ last.args[2] \in DOMAIN db
              /\ db[last.args[2]] = last.pre[last.args[1]]
              /\ \A k \in DOMAIN last.pre \ {last.args[1]} : k \in DOMAIN db /\ db[k] = last.pre[k]
              /\ count_returns(db) = count_returns(last.pre)

\* rename has moved an expired, unswept record to a free key.
C15_Witness ==
    /\ last.op = "rename"
    /\ last.args[1] \in ExpiredKeys(last.pre, last.at)
    /\ last.args[2] \notin DOMAIN last.pre
    /\ last.args[2] \in ExpiredKeys(db, last.at)
    /\ last.args[1] \notin DOMAIN db

\* C20: rename(old_key, new_key) with records for both keys, old_key # new_key,
\* raises the store's uniqueness error and leaves the store unchanged.
C20_RenameOntoRecordFails ==
    (/\ last.op = "rename"
     /\ last.args[1] # last.args[2]
     /\ {last.args[1], last.args[2]} \subseteq DOMAIN last.pre) =>
        /\ last.ret = Raised("ConstraintError")
        /\ db = last.pre

\* rename onto a key whose record differs from the renamed one has failed.
C20_Witness ==
    /\ last.op = "rename"
    /\ last.args[1] # last.args[2]
    /\ {last.args[1], last.args[2]} \subseteq DOMAIN last.pre
    /\ last.pre[last.args[1]] # last.pre[last.args[2]]
    /\ last.ret = Raised("ConstraintError")

\* The last call was a write given an empty key or a negative ttl.
NegativeTTL(ttl) == ttl.t = "int" /\ ttl.v < 0

BadArgument ==
    \/ last.op = "set" /\ (last.args[1] = <<>> \/ NegativeTTL(last.args[3]))
    \/ last.op = "set_many" /\ \E i \in 1..Len(last.args[1]) :
          last.args[1][i][1] = <<>> \/ NegativeTTL(last.args[1][i][3])
    \/ last.op = "set_expire" /\ (last.args[1] = <<>> \/ last.args[2] < 0)

\* C16: set, set_many and set_expire called with an empty key or a negative ttl
\* raise InvalidArgument and leave the store as it was before the call.
C16_BadArgumentRejected ==
    BadArgument => (last.ret = Raised("InvalidArgument") /\ db = last.pre)

\* The calls the documentation of cleanup names: retrieval and key checking.
ReadOps == {"get", "get_many", "exists", "keys", "paginate"}

\* C19: right after get, get_many, exists, keys or paginate returns at clock
\* value now, no record with expires_at <= now is stored: count_expired() is 0
\* and count() is the number of live keys.
C19_ReadsSweepFirst ==
    last.op \in ReadOps =>
        /\ count_expired_returns(db, last.at) = 0
        /\ count_returns(db) = Cardinality(LiveKeys(db, last.at))

\* C17: a set_many, delete_many or get_many call in which the store fails on
\* some entry or batch fails as a whole and leaves the store as it was before
\* the call.
C17_BatchAllOrNothing ==
    /\ (last.op \in {"set_many", "delete_many"} /\ last.ret = StoreError) => db = last.pre
    /\ last.op = "get_many" => db = last.pre


\* C18: pop(key) reads and deletes as one step among the callers: two
\* overlapping pops that read one record do not both return its value, and
\* pop's delete removes no record other than the one pop read.
C18_PopAtomic ==
    \A c \in Callers :
        callers[c].pc = "returned" =>
            /\ callers[c].removed \in {<<>>, callers[c].seen}
            /\ \A o \in callers[c].with :
                  ~(/\ callers[o].pc = "returned"
                    /\ callers[o].key = callers[c].key
                    /\ pop_deletes(callers[o].value)
                    /\ pop_deletes(callers[c].value))

\* The value whose encoding is the payload stored under key in d.
OriginalValue(d, key) == CHOOSE v \in StoreValues : encode_value(v) = d[key].value

\* C21: set_expire(k, ttl) with ttl > 0 on a record that is expired but still
\* stored makes k live again: a get(k) that follows returns the record's
\* original value and exists(k) is true. set_expire or update on a key with no
\* record (swept by cleanup, or deleted) leaves it without one: get(k) is
\* absent and exists(k) is false.
C21_ExpiredRecoverableUntilSwept ==
    /\ (/\ last.op = "set_expire"
        /\ last.args[2] > 0
        /\ CallKey \in ExpiredKeys(last.pre, last.at)) =>
           /\ CallKey \in LiveKeys(db, last.at)
           /\ get_returns(db, CallKey, last.at) = OriginalValue(last.pre, CallKey)
           /\ exists_returns(db, CallKey, last.at)
    /\ (last.op \in {"set_expire", "update"} /\ CallKey \notin DOMAIN last.pre) =>
           /\ CallKey \notin DOMAIN db
           /\ get_returns(db, CallKey, last.at) = None
           /\ ~exists_returns(db, CallKey, last.at)

\* set_expire with a positive ttl has revived a record that get() no longer
\* returned.
C21_Witness ==
    /\ last.op = "set_expire"
    /\ last.args[2] > 0
    /\ CallKey \in ExpiredKeys(last.pre, last.at)
    /\ get_returns(last.pre, CallKey, last.at) = None
    /\ get_returns(db, CallKey, last.at) # None

=============================================================================
